---- MODULE Spec2Model ----
(***************************************************************************)
(* Access control of the jsonrpsee HTTP server: the AccessControlBuilder,  *)
(* the AccessControl it builds and the three predicates deny_host,         *)
(* deny_cors_origin and deny_cors_header                                   *)
(* (http-server/src/access_control/mod.rs).  The submodules cors, hosts    *)
(* and matcher are modelled after their specified contracts.               *)
(*                                                                         *)
(* A string is a sequence of one-character strings, so that case folding,  *)
(* prefix and suffix tests and splitting are computed, not assumed.        *)
(***************************************************************************)
EXTENDS Integers, Sequences, FiniteSets, TLC

VARIABLES builder, calls, pc, ac, same_origin_rep, last

vars == <<builder, calls, pc, ac, same_origin_rep, last>>

\* ------------------------------------------------------------------ bounds
\* Total number of builder method calls before build().
MaxCalls == 3

\* ----------------------------------------------------------------- strings
ExampleCom == <<"e", "x", "a", "m", "p", "l", "e", ".", "c", "o", "m">>
WildExampleCom == <<"*", ".", "e", "x", "a", "m", "p", "l", "e", ".", "c", "o", "m">>
ExampleComUpper == <<"E", "X", "A", "M", "P", "L", "E", ".", "C", "O", "M">>
AExampleCom == <<"a", ".", "e", "x", "a", "m", "p", "l", "e", ".", "c", "o", "m">>
EvilExampleCom == <<"e", "v", "i", "l", "e", "x", "a", "m", "p", "l", "e", ".", "c", "o", "m">>
InnerStar == <<"a", ".", "*", ".", "c", "o", "m">>
ABCom == <<"a", ".", "b", ".", "c", "o", "m">>
HttpsACom == <<"h", "t", "t", "p", "s", ":", "/", "/", "a", ".", "c", "o", "m">>
HttpsBCom == <<"h", "t", "t", "p", "s", ":", "/", "/", "b", ".", "c", "o", "m">>
HttpsAComUpper == <<"H", "T", "T", "P", "S", ":", "/", "/", "A", ".", "C", "O", "M">>
XFoo == <<"x", "-", "f", "o", "o">>
XFooMixed == <<"X", "-", "F", "o", "o">>
XBar == <<"x", "-", "b", "a", "r">>
FooCommaBar == <<"x", "-", "f", "o", "o", ",", "x", "-", "b", "a", "r">>
FooCommaSpaceFoo == <<"x", "-", "f", "o", "o", ",", " ", "X", "-", "F", "o", "o">>
\* A header value holding a byte that is not visible ASCII (0x80).
OpaqueValue == <<"x", "\\x80">>

\* The static header values of deny_cors_origin and deny_cors_header.
NullStr == <<"n", "u", "l", "l">>
StarStr == <<"*">>
UnknownStr == <<"u", "n", "k", "n", "o", "w", "n">>

\* ------------------------------------------------------- string primitives
UpperChars == <<"A", "B", "C", "D", "E", "F", "G", "H", "I", "J", "K", "L", "M",
                "N", "O", "P", "Q", "R", "S", "T", "U", "V", "W", "X", "Y", "Z">>
LowerChars == <<"a", "b", "c", "d", "e", "f", "g", "h", "i", "j", "k", "l", "m",
                "n", "o", "p", "q", "r", "s", "t", "u", "v", "w", "x", "y", "z">>

\* u8::to_ascii_lowercase
to_ascii_lowercase(c) ==
    IF \E i \in 1..Len(UpperChars) : UpperChars[i] = c
    THEN LowerChars[CHOOSE i \in 1..Len(UpperChars) : UpperChars[i] = c]
    ELSE c

\* str::eq_ignore_ascii_case
eq_ignore_ascii_case(a, b) ==
    /\ Len(a) = Len(b)
    /\ \A i \in 1..Len(a) : to_ascii_lowercase(a[i]) = to_ascii_lowercase(b[i])

\* str::starts_with
starts_with(s, p) == Len(p) <= Len(s) /\ SubSeq(s, 1, Len(p)) = p

\* Tail of s of the length of suffix, compared without regard to ASCII case.
ends_with_ignore_case(s, suffix) ==
    /\ Len(suffix) <= Len(s)
    /\ eq_ignore_ascii_case(SubSeq(s, Len(s) - Len(suffix) + 1, Len(s)), suffix)

\* Index of the first occurrence of sep in s at or after position i, 0 if none.
RECURSIVE find_from(_, _, _)
find_from(s, sep, i) ==
    IF i + Len(sep) - 1 > Len(s) THEN 0
    ELSE IF SubSeq(s, i, i + Len(sep) - 1) = sep THEN i
    ELSE find_from(s, sep, i + 1)

\* str::split(sep): the pieces between the occurrences of sep; a string
\* without sep (the empty string included) is one piece.
RECURSIVE split(_, _)
split(s, sep) ==
    LET k == find_from(s, sep, 1) IN
    IF k = 0 THEN <<s>>
    ELSE <<SubSeq(s, 1, k - 1)>> \o split(SubSeq(s, k + Len(sep), Len(s)), sep)

\* Iterator::flat_map over a sequence
RECURSIVE flat_map_split(_, _)
flat_map_split(vals, sep) ==
    IF vals = <<>> THEN <<>>
    ELSE split(Head(vals), sep) \o flat_map_split(Tail(vals), sep)

\* Bytes a HeaderValue cannot be built from (control characters).
ControlChars == {"\n", "\r"}
\* Bytes that HeaderValue::to_str rejects (not visible ASCII).
NonAsciiChars == {"\\x80"}

\* HeaderValue::from_str(s).is_ok()
header_value_from_str_ok(s) == \A i \in 1..Len(s) : s[i] \notin ControlChars

\* HeaderValue::to_str().is_ok()
header_value_to_str_ok(v) ==
    \A i \in 1..Len(v) : v[i] \notin ControlChars \cup NonAsciiChars

\* Iterator::filter_map(|val| val.to_str().ok())
RECURSIVE filter_map_to_str(_)
filter_map_to_str(vals) ==
    IF vals = <<>> THEN <<>>
    ELSE IF header_value_to_str_ok(Head(vals))
         THEN <<Head(vals)>> \o filter_map_to_str(Tail(vals))
         ELSE filter_map_to_str(Tail(vals))

\* ------------------------------------------------------------- data model
None == [some |-> FALSE]
Some(x) == [some |-> TRUE, val |-> x]

\* hosts::AllowHosts
AllowHosts_Any == [kind |-> "Any"]
AllowHosts_Only(list) == [kind |-> "Only", list |-> list]

\* cors::AccessControlAllowOrigin
Origin_Any == [kind |-> "Any"]
Origin_Null == [kind |-> "Null"]
Origin_Value(v) == [kind |-> "Value", val |-> v]

\* cors::AccessControlAllowHeaders
AllowHeaders_Any == [kind |-> "Any"]
AllowHeaders_Only(list) == [kind |-> "Only", list |-> list]

\* cors::AllowCors
Invalid == [tag |-> "Invalid"]
NotRequired == [tag |-> "NotRequired"]
Ok(v) == [tag |-> "Ok", val |-> v]

\* AllowCors::map, f being a function on the values an Ok may carry
AllowCors_map(cors, f) == IF cors.tag = "Ok" THEN Ok(f[cors.val]) ELSE cors

\* ------------------------------------------------------------ mod matcher
\* matches, but a "*."+d pattern accepts any candidate ending with d.
matches_any_suffix(pattern, candidate) ==
    IF starts_with(pattern, <<"*", ".">>)
    THEN ends_with_ignore_case(candidate, Tail(Tail(pattern)))
    ELSE eq_ignore_ascii_case(pattern, candidate)

\* Matcher::matches: a pattern with a leading "*." accepts the candidates
\* that end with "." followed by the rest of the pattern; any other pattern
\* is compared for equality; both without regard to ASCII case.
matches(pattern, candidate) ==
    IF starts_with(pattern, <<"*", ".">>)
    THEN ends_with_ignore_case(candidate, Tail(pattern))
    ELSE eq_ignore_ascii_case(pattern, candidate)

\* -------------------------------------------------------------- mod hosts
\* hosts::is_host_valid
is_host_valid(host_header, allow_hosts) ==
    IF allow_hosts.kind = "Any" THEN TRUE
    ELSE /\ host_header.some
         /\ \E i \in 1..Len(allow_hosts.list) :
                matches(allow_hosts.list[i], host_header.val)

\* --------------------------------------------------------------- mod cors
\* Does one allow-list entry accept the Origin header value?
origin_entry_accepts(entry, origin) ==
    CASE entry.kind = "Any" -> TRUE
      [] entry.kind = "Null" -> origin = NullStr
      [] entry.kind = "Value" -> entry.val = origin

\* The value a same-origin request resolves to: the contract only says
\* "a permissive Ok", so either representative may be the one produced.
same_origin_ok(origin) ==
    IF same_origin_rep = "Any" THEN Ok(Origin_Any) ELSE Ok(Origin_Value(origin))

\* cors::get_cors_allow_origin
get_cors_allow_origin(origin_header, host_header, policy) ==
    IF ~origin_header.some THEN NotRequired
    ELSE IF origin_header = host_header THEN same_origin_ok(origin_header.val)
    ELSE IF ~policy.some THEN Invalid
    ELSE LET list == policy.val
             accepting == {i \in 1..Len(list) :
                              origin_entry_accepts(list[i], origin_header.val)}
         IN IF \E i \in 1..Len(list) : list[i].kind = "Any" THEN Ok(Origin_Any)
            ELSE IF accepting = {} THEN Invalid
            ELSE Ok(list[CHOOSE i \in accepting : \A j \in accepting : i <= j])

\* cors::get_cors_allow_headers
get_cors_allow_headers(headers, requested_headers, policy, to_header_value) ==
    LET values == [i \in 1..Len(requested_headers) |->
                      to_header_value[requested_headers[i]]]
    IN IF requested_headers = <<>> THEN NotRequired
       ELSE IF policy.kind = "Any" THEN Ok(values)
       ELSE IF \A i \in 1..Len(requested_headers) :
                  \E j \in 1..Len(policy.list) :
                      eq_ignore_ascii_case(policy.list[j], requested_headers[i])
            THEN Ok(values)
            ELSE Invalid

\* ----------------------------------------------------------- http_helpers
HostName == "host"
OriginName == "origin"
RequestHeadersName == "access-control-request-headers"
HeaderNames == {HostName, OriginName, RequestHeadersName}

\* A request is its header map: header name -> sequence of values.
Request(host, origin, acrh) ==
    (HostName :> host) @@ (OriginName :> origin) @@ (RequestHeadersName :> acrh)

\* http_helpers::read_header_value: the value of a header as a string, if
\* the header is there and its value is one.
read_header_value(headers, name) ==
    IF headers[name] # <<>> /\ header_value_to_str_ok(headers[name][1])
    THEN Some(headers[name][1])
    ELSE None

\* http_helpers::read_header_values: all the values of a header.
read_header_values(headers, name) == headers[name]

\* HeaderMap::keys
header_keys(headers) == {n \in HeaderNames : headers[n] # <<>>}

\* ------------------------------------------------------------ AccessControl
\* deny_host without the negation.
deny_host_not_negated(self, request) ==
    is_host_valid(read_header_value(request, HostName), self.allow_hosts)

\* AccessControl::deny_host
deny_host(self, request) ==
    ~is_host_valid(read_header_value(request, HostName), self.allow_hosts)

\* origin_header_value with the Value arm always falling back to "null".
origin_header_value_value_null(origin) ==
    CASE origin.kind = "Value" -> NullStr
      [] origin.kind = "Null" -> NullStr
      [] origin.kind = "Any" -> StarStr

\* origin_header_value with the Null and Any arms swapped.
origin_header_value_any_null(origin) ==
    CASE origin.kind = "Value" ->
            IF header_value_from_str_ok(origin.val) THEN origin.val ELSE NullStr
      [] origin.kind = "Null" -> StarStr
      [] origin.kind = "Any" -> NullStr

\* The closure of deny_cors_origin: the header value of a resolved origin.
origin_header_value(origin) ==
    CASE origin.kind = "Value" ->
            IF header_value_from_str_ok(origin.val) THEN origin.val ELSE NullStr
      [] origin.kind = "Null" -> NullStr
      [] origin.kind = "Any" -> StarStr

\* The origins an Ok of get_cors_allow_origin may carry for a request.
resolved_origins(self, request) ==
    LET origin == read_header_value(request, OriginName) IN
    {Origin_Any, Origin_Null}
        \cup (IF origin.some THEN {Origin_Value(origin.val)} ELSE {})
        \cup (IF self.cors_allow_origin.some
              THEN {self.cors_allow_origin.val[i] :
                       i \in 1..Len(self.cors_allow_origin.val)}
              ELSE {})

\* cors_origin_header never seeing the Host header.
cors_origin_header_no_host(self, request) ==
    AllowCors_map(get_cors_allow_origin(read_header_value(request, OriginName),
                                        None,
                                        self.cors_allow_origin),
                  [origin \in resolved_origins(self, request) |->
                      origin_header_value(origin)])

\* The local `header` of deny_cors_origin.
cors_origin_header(self, request) ==
    AllowCors_map(get_cors_allow_origin(read_header_value(request, OriginName),
                                        read_header_value(request, HostName),
                                        self.cors_allow_origin),
                  [origin \in resolved_origins(self, request) |->
                      origin_header_value(origin)])

\* deny_cors_origin ignoring continue_on_invalid_cors.
deny_cors_origin_ignoring_continue(self, request) ==
    cors_origin_header(self, request) = Invalid

\* AccessControl::deny_cors_origin
deny_cors_origin(self, request) ==
    cors_origin_header(self, request) = Invalid /\ ~self.continue_on_invalid_cors

\* requested_headers split on ", " only.
requested_headers_one_split(request) ==
    flat_map_split(
        filter_map_to_str(read_header_values(request, RequestHeadersName)),
        <<",", " ">>)

\* The local `requested_headers` of deny_cors_header.
requested_headers(request) ==
    flat_map_split(
        flat_map_split(
            filter_map_to_str(read_header_values(request, RequestHeadersName)),
            <<",", " ">>),
        <<",">>)

\* The closure of deny_cors_header: the header value of a header name.
name_header_value(name) ==
    IF header_value_from_str_ok(name) THEN name ELSE UnknownStr

\* The local `header` of deny_cors_header.
cors_headers_header(self, request) ==
    LET requested == requested_headers(request) IN
    get_cors_allow_headers(header_keys(request), requested,
                           self.cors_allow_headers,
                           [name \in {requested[i] : i \in 1..Len(requested)} |->
                               name_header_value(name)])

\* deny_cors_header denying whatever is not Ok.
deny_cors_header_unless_ok(self, request) ==
    cors_headers_header(self, request).tag # "Ok" /\ ~self.continue_on_invalid_cors

\* AccessControl::deny_cors_header
deny_cors_header(self, request) ==
    cors_headers_header(self, request) = Invalid /\ ~self.continue_on_invalid_cors

\* impl Default for AccessControl
AccessControl_default ==
    [allow_hosts |-> AllowHosts_Any,
     cors_allow_origin |-> None,
     cors_allow_headers |-> AllowHeaders_Any,
     continue_on_invalid_cors |-> FALSE]

\* impl Default for AccessControlBuilder
AccessControlBuilder_default ==
    [allow_hosts |-> AllowHosts_Any,
     cors_allow_origin |-> None,
     cors_allow_headers |-> AllowHeaders_Any,
     continue_on_invalid_cors |-> FALSE]

\* AccessControlBuilder::new
AccessControlBuilder_new == AccessControlBuilder_default

\* ------------------------------------------------------------------ inputs
HostArgs == {ExampleCom, WildExampleCom, InnerStar}
OriginArgs == {Origin_Any, Origin_Null, Origin_Value(HttpsACom)}
HeaderArgs == {XFoo, XBar}

HostHeaderValues ==
    {<<>>, <<ExampleCom>>, <<ExampleComUpper>>, <<AExampleCom>>,
     <<EvilExampleCom>>, <<ABCom>>, <<InnerStar>>}
OriginHeaderValues ==
    {<<>>, <<HttpsACom>>, <<HttpsBCom>>, <<HttpsAComUpper>>, <<NullStr>>,
     <<ExampleCom>>}
RequestHeadersValues ==
    {<<>>, <<XFooMixed>>, <<XBar>>, <<FooCommaBar>>, <<FooCommaSpaceFoo>>,
     <<XFoo, XBar>>, << <<>> >>, <<OpaqueValue>>}

\* Every Host/Origin combination, and every Access-Control-Request-Headers
\* value on a request with and without an Origin.
Requests ==
    {Request(h, o, <<>>) : h \in HostHeaderValues, o \in OriginHeaderValues}
        \cup {Request(<<ExampleCom>>, o, a) :
                  o \in {<<>>, <<HttpsACom>>}, a \in RequestHeadersValues}

\* ------------------------------------------------------------------- state
\* builder          the AccessControlBuilder being configured (moved by build)
\* calls            the arguments of the builder calls made, per method
\* pc               "building", then "serving" once an AccessControl exists,
\*                  "checked" while the verdict of a predicate is in `last`
\* ac               the AccessControl in use
\* same_origin_rep  the representative a same-origin request resolves to
\* last             the last predicate call: what it read and returned
Moved == [moved |-> TRUE]
NoAccessControl == [built |-> FALSE]
NoCall == [op |-> "none"]
NoCalls == [allow_host |-> <<>>, cors_allow_origin |-> <<>>,
            cors_allow_header |-> <<>>, continue_on_invalid_cors |-> <<>>]

NumCalls ==
    Len(calls.allow_host) + Len(calls.cors_allow_origin)
        + Len(calls.cors_allow_header) + Len(calls.continue_on_invalid_cors)

Init ==
    /\ builder = AccessControlBuilder_new
    /\ calls = NoCalls
    /\ pc = "building"
    /\ ac = NoAccessControl
    /\ same_origin_rep \in {"Any", "Value"}
    /\ last = NoCall

\* allow_host replacing the list instead of pushing to it.
allow_host_result_replacing(self, host) ==
    [self EXCEPT !.allow_hosts = AllowHosts_Only(<<host>>)]

\* AccessControlBuilder::allow_host
allow_host_result(self, host) ==
    LET allow_hosts == IF self.allow_hosts.kind = "Any" THEN <<host>>
                       ELSE Append(self.allow_hosts.list, host)
    IN [self EXCEPT !.allow_hosts = AllowHosts_Only(allow_hosts)]

allow_host(host) ==
    /\ pc = "building"
    /\ NumCalls < MaxCalls
    /\ builder' = allow_host_result(builder, host)
    /\ calls' = [calls EXCEPT !.allow_host = Append(@, host)]
    /\ UNCHANGED <<pc, ac, same_origin_rep, last>>

\* AccessControlBuilder::cors_allow_origin
cors_allow_origin_result(self, allow_origin) ==
    LET cors_allow_origin == IF self.cors_allow_origin.some
                             THEN Append(self.cors_allow_origin.val, allow_origin)
                             ELSE <<allow_origin>>
    IN [self EXCEPT !.cors_allow_origin = Some(cors_allow_origin)]

cors_allow_origin(allow_origin) ==
    /\ pc = "building"
    /\ NumCalls < MaxCalls
    /\ builder' = cors_allow_origin_result(builder, allow_origin)
    /\ calls' = [calls EXCEPT !.cors_allow_origin = Append(@, allow_origin)]
    /\ UNCHANGED <<pc, ac, same_origin_rep, last>>

\* AccessControlBuilder::cors_allow_header
cors_allow_header_result(self, header) ==
    LET allow_headers == IF self.cors_allow_headers.kind = "Any" THEN <<header>>
                         ELSE Append(self.cors_allow_headers.list, header)
    IN [self EXCEPT !.cors_allow_headers = AllowHeaders_Only(allow_headers)]

cors_allow_header(header) ==
    /\ pc = "building"
    /\ NumCalls < MaxCalls
    /\ builder' = cors_allow_header_result(builder, header)
    /\ calls' = [calls EXCEPT !.cors_allow_header = Append(@, header)]
    /\ UNCHANGED <<pc, ac, same_origin_rep, last>>

\* AccessControlBuilder::continue_on_invalid_cors
continue_on_invalid_cors_result(self, continue) ==
    [self EXCEPT !.continue_on_invalid_cors = continue]

continue_on_invalid_cors(continue) ==
    /\ pc = "building"
    /\ NumCalls < MaxCalls
    /\ builder' = continue_on_invalid_cors_result(builder, continue)
    /\ calls' = [calls EXCEPT !.continue_on_invalid_cors = Append(@, continue)]
    /\ UNCHANGED <<pc, ac, same_origin_rep, last>>

\* AccessControlBuilder::build
build_result(self) ==
    [allow_hosts |-> self.allow_hosts,
     cors_allow_origin |-> self.cors_allow_origin,
     cors_allow_headers |-> self.cors_allow_headers,
     continue_on_invalid_cors |-> self.continue_on_invalid_cors]

build ==
    /\ pc = "building"
    /\ ac' = build_result(builder)
    /\ builder' = Moved
    /\ pc' = "serving"
    /\ UNCHANGED <<calls, same_origin_rep, last>>

\* AccessControl::default(): an AccessControl made without the builder.
default ==
    /\ pc = "building"
    /\ calls = NoCalls
    /\ ac' = AccessControl_default
    /\ builder' = Moved
    /\ pc' = "serving"
    /\ UNCHANGED <<calls, same_origin_rep, last>>

\* A request handler asks deny_host.
call_deny_host(request) ==
    /\ pc = "serving"
    /\ last' = [op |-> "deny_host",
                host |-> read_header_value(request, HostName),
                denied |-> deny_host(ac, request)]
    /\ pc' = "checked"
    /\ UNCHANGED <<builder, calls, ac, same_origin_rep>>

\* A request handler asks deny_cors_origin.
call_deny_cors_origin(request) ==
    /\ pc = "serving"
    /\ last' = [op |-> "deny_cors_origin",
                origin |-> read_header_value(request, OriginName),
                host |-> read_header_value(request, HostName),
                header |-> cors_origin_header(ac, request),
                denied |-> deny_cors_origin(ac, request)]
    /\ pc' = "checked"
    /\ UNCHANGED <<builder, calls, ac, same_origin_rep>>

\* A request handler asks deny_cors_header.
call_deny_cors_header(request) ==
    /\ pc = "serving"
    /\ last' = [op |-> "deny_cors_header",
                values |-> read_header_values(request, RequestHeadersName),
                requested |-> requested_headers(request),
                header |-> cors_headers_header(ac, request),
                denied |-> deny_cors_header(ac, request)]
    /\ pc' = "checked"
    /\ UNCHANGED <<builder, calls, ac, same_origin_rep>>

\* The handler has used the verdict; the next request may come.
respond ==
    /\ pc = "checked"
    /\ pc' = "serving"
    /\ last' = NoCall
    /\ UNCHANGED <<builder, calls, ac, same_origin_rep>>

Next ==
    \/ \E host \in HostArgs : allow_host(host)
    \/ \E allow_origin \in OriginArgs : cors_allow_origin(allow_origin)
    \/ \E header \in HeaderArgs : cors_allow_header(header)
    \/ \E continue \in BOOLEAN : continue_on_invalid_cors(continue)
    \/ build
    \/ default
    \/ \E request \in Requests : call_deny_host(request)
    \/ \E request \in Requests : call_deny_cors_origin(request)
    \/ \E request \in Requests : call_deny_cors_header(request)
    \/ respond

Spec == Init /\ [][Next]_vars

TypeOK == pc \in {"building", "serving", "checked"}

\* ================================================================= claims
Built == ac # NoAccessControl
OriginChecked == last.op = "deny_cors_origin"
HeaderChecked == last.op = "deny_cors_header"
HostChecked == last.op = "deny_host"
\* The request of the last deny_cors_origin call is cross-origin.
CrossOrigin == OriginChecked /\ last.origin.some /\ last.origin # last.host

\* C1: deny_cors_origin and deny_cors_header return true iff the resolved
\* CORS outcome is Invalid and continue_on_invalid_cors is false; with the
\* flag set neither denies, and Ok or NotRequired never denies.
C1_DenyIffInvalidAndNotContinue ==
    (OriginChecked \/ HeaderChecked) =>
        /\ last.denied <=>
               (last.header.tag = "Invalid" /\ ~ac.continue_on_invalid_cors)
        /\ ac.continue_on_invalid_cors => ~last.denied
        /\ last.header.tag \in {"Ok", "NotRequired"} => ~last.denied

C1_Witness ==
    /\ HeaderChecked
    /\ last.header.tag = "Invalid"
    /\ ac.continue_on_invalid_cors
    /\ ~last.denied

\* All the orders of a list.
Permutations_of(list) ==
    LET n == Len(list)
        bijections == {f \in [1..n -> 1..n] : \A i, j \in 1..n : i # j => f[i] # f[j]}
    IN {[i \in 1..n |-> list[f[i]]] : f \in bijections}

\* C2: deny_host is the negation of is_host_valid: Any never denies;
\* Only(list) lets a request through iff it has a Host header that the
\* Matcher accepts against some entry, so a request without Host is denied,
\* an empty list denies every request, and the order of the list is
\* irrelevant.
C2_DenyHostIffNoEntryMatches ==
    HostChecked =>
        /\ last.denied <=> ~is_host_valid(last.host, ac.allow_hosts)
        /\ ac.allow_hosts.kind = "Any" => ~last.denied
        /\ ac.allow_hosts.kind = "Only" =>
              /\ ~last.denied <=>
                     /\ last.host.some
                     /\ \E i \in 1..Len(ac.allow_hosts.list) :
                            matches(ac.allow_hosts.list[i], last.host.val)
              /\ ~last.host.some => last.denied
              /\ \A perm \in Permutations_of(ac.allow_hosts.list) :
                     is_host_valid(last.host, AllowHosts_Only(perm)) <=> ~last.denied
        /\ ~is_host_valid(last.host, AllowHosts_Only(<<>>))

C2_Witness ==
    /\ HostChecked
    /\ ac.allow_hosts.kind = "Only"
    /\ Len(ac.allow_hosts.list) >= 2
    /\ last.host.some
    /\ ~matches(ac.allow_hosts.list[1], last.host.val)
    /\ ~last.denied

\* C3: an AccessControl built without any configuration call (or made by
\* AccessControl::default()) allows everything: Any for hosts and headers,
\* an origin policy that allows every origin, continue_on_invalid_cors
\* false, and no predicate ever denies a request.
C3_DefaultsNeverDeny ==
    (Built /\ calls = NoCalls) =>
        /\ ac.allow_hosts = AllowHosts_Any
        /\ ac.cors_allow_headers = AllowHeaders_Any
        /\ ~ac.continue_on_invalid_cors
        /\ last.op # "none" => ~last.denied

\* What the builder calls made so far amount to.
Accumulated ==
    [allow_hosts |->
        IF calls.allow_host = <<>> THEN AllowHosts_Any
        ELSE AllowHosts_Only(calls.allow_host),
     cors_allow_origin |->
        IF calls.cors_allow_origin = <<>> THEN None
        ELSE Some(calls.cors_allow_origin),
     cors_allow_headers |->
        IF calls.cors_allow_header = <<>> THEN AllowHeaders_Any
        ELSE AllowHeaders_Only(calls.cors_allow_header),
     continue_on_invalid_cors |->
        IF calls.continue_on_invalid_cors = <<>> THEN FALSE
        ELSE calls.continue_on_invalid_cors[Len(calls.continue_on_invalid_cors)]]

\* C4: build() yields exactly what the builder calls accumulated: per
\* method the arguments in call order (duplicates kept), Any/None for a
\* method never called, the last continue_on_invalid_cors argument (false
\* if none); the interleaving of different methods is irrelevant.
C4_BuildYieldsAccumulatedCalls ==
    /\ pc = "building" => builder = Accumulated
    /\ Built => ac = Accumulated

C4_Witness ==
    /\ Built
    /\ calls.allow_host = <<ExampleCom, ExampleCom>>
    /\ Len(calls.cors_allow_origin) = 1
    /\ ac.allow_hosts = AllowHosts_Only(<<ExampleCom, ExampleCom>>)

\* C5: a request without an Origin header resolves to NotRequired and is
\* not denied by deny_cors_origin; a request whose requested-headers
\* sequence is empty resolves to NotRequired and is not denied by
\* deny_cors_header; whatever the policy and the flag.
C5_NonCorsRequestNeverDenied ==
    /\ (OriginChecked /\ ~last.origin.some) =>
           (last.header = NotRequired /\ ~last.denied)
    /\ (HeaderChecked /\ last.requested = <<>>) =>
           (last.header = NotRequired /\ ~last.denied)

C5_Witness ==
    /\ HeaderChecked
    /\ last.values # <<>>
    /\ last.requested = <<>>
    /\ ac.cors_allow_headers.kind = "Only"
    /\ ~ac.continue_on_invalid_cors
    /\ ~last.denied

\* C6: a request whose Origin equals its Host resolves to Ok and is not
\* denied by deny_cors_origin, whatever the origin policy and the flag.
C6_SameOriginNeverDenied ==
    (OriginChecked /\ last.origin.some /\ last.origin = last.host) =>
        (last.header.tag = "Ok" /\ ~last.denied)

C6_Witness ==
    /\ OriginChecked
    /\ last.origin.some
    /\ last.origin = last.host
    /\ ac.cors_allow_origin = None
    /\ ~ac.continue_on_invalid_cors
    /\ ~last.denied

\* C7: for a cross-origin request the resolution is Invalid iff the policy
\* is None or no entry accepts the Origin (Any accepts all, Null accepts
\* "null", Value(v) accepts exactly v, case-sensitively); an accepted Origin
\* resolves to Ok of "*" or of the Origin itself.
C7_CrossOriginResolution ==
    CrossOrigin =>
        LET origin == last.origin.val
            policy == ac.cors_allow_origin
            accepted ==
                /\ policy.some
                /\ \E i \in 1..Len(policy.val) :
                       \/ policy.val[i].kind = "Any"
                       \/ policy.val[i].kind = "Null" /\ origin = NullStr
                       \/ policy.val[i].kind = "Value" /\ policy.val[i].val = origin
            has_any == policy.some /\ \E i \in 1..Len(policy.val) :
                                          policy.val[i].kind = "Any"
        IN /\ last.header = Invalid <=> ~accepted
           /\ accepted => last.header = Ok(IF has_any THEN StarStr ELSE origin)
           /\ policy = Some(<<Origin_Value(HttpsACom)>>) =>
                 /\ origin = HttpsACom => last.header = Ok(HttpsACom)
                 /\ origin = HttpsBCom => last.header = Invalid
                 /\ origin = HttpsAComUpper => last.header = Invalid

C7_Witness ==
    /\ CrossOrigin
    /\ ac.cors_allow_origin = Some(<<Origin_Null, Origin_Value(HttpsACom)>>)
    /\ last.origin = Some(HttpsACom)
    /\ last.header = Ok(HttpsACom)

HasAnyEntry ==
    /\ ac.cors_allow_origin.some
    /\ \E i \in 1..Len(ac.cors_allow_origin.val) :
           ac.cors_allow_origin.val[i].kind = "Any"

\* C8 as stated: a policy containing an Any entry always resolves to
\* Ok("*"), for every request.
C8_AnyEntryAlwaysStar ==
    (OriginChecked /\ HasAnyEntry) => last.header = Ok(StarStr)

\* C8: for a cross-origin request (Origin present and different from Host),
\* a policy containing an Any entry resolves to Ok("*"), wherever the entry
\* stands in the list and whatever precedes or follows it.
C8_AnyEntryStarForCrossOrigin ==
    (CrossOrigin /\ HasAnyEntry) => last.header = Ok(StarStr)

C8_Witness ==
    /\ CrossOrigin
    /\ ac.cors_allow_origin = Some(<<Origin_Value(HttpsACom), Origin_Any>>)
    /\ last.origin = Some(HttpsACom)
    /\ last.header = Ok(StarStr)

\* C9: the requested names are the pieces of every
\* Access-Control-Request-Headers value split on ", " and then on ","; a
\* non-empty sequence of them resolves to Ok under Any, and under
\* Only(list) to Ok iff every name equals some entry without regard to
\* case, and to Invalid otherwise.
C9_RequestedHeadersResolution ==
    HeaderChecked =>
        LET policy == ac.cors_allow_headers
            listed(name) ==
                \E j \in 1..Len(policy.list) :
                    /\ Len(policy.list[j]) = Len(name)
                    /\ \A k \in 1..Len(name) :
                           to_ascii_lowercase(policy.list[j][k])
                               = to_ascii_lowercase(name[k])
        IN /\ last.values = <<FooCommaBar>> => last.requested = <<XFoo, XBar>>
           /\ last.values = <<FooCommaSpaceFoo>> => last.requested = <<XFoo, XFooMixed>>
           /\ last.values = <<XFoo, XBar>> => last.requested = <<XFoo, XBar>>
           /\ \A i \in 1..Len(last.requested) :
                  \A k \in 1..Len(last.requested[i]) : last.requested[i][k] # ","
           /\ last.requested # <<>> =>
                 /\ policy.kind = "Any" => last.header.tag = "Ok"
                 /\ policy.kind = "Only" =>
                       /\ last.header.tag = "Ok" <=>
                              \A i \in 1..Len(last.requested) : listed(last.requested[i])
                       /\ last.header.tag \in {"Ok", "Invalid"}
                 /\ policy = AllowHeaders_Only(<<XFoo>>) =>
                       /\ last.values = <<XFooMixed>> => last.header.tag = "Ok"
                       /\ last.values = <<XBar>> => last.header = Invalid

C9_Witness ==
    /\ HeaderChecked
    /\ ac.cors_allow_headers = AllowHeaders_Only(<<XFoo, XBar>>)
    /\ last.values = <<FooCommaBar>>
    /\ last.header.tag = "Ok"

\* A string with every ASCII letter in lower case.
Lowered(s) == [i \in 1..Len(s) |-> to_ascii_lowercase(s[i])]

\* What the Matcher is to accept: equality up to case for a pattern without
\* a leading "*."; for "*."+d the candidates that are some prefix followed
\* by "."+d, up to case.
MatcherAccepts(pattern, candidate) ==
    IF Len(pattern) >= 2 /\ pattern[1] = "*" /\ pattern[2] = "."
    THEN \E k \in 1..Len(candidate) :
             Lowered(SubSeq(candidate, k, Len(candidate))) = Lowered(Tail(pattern))
    ELSE Lowered(pattern) = Lowered(candidate)

\* C10: the Matcher accepts exactly: for a pattern without a leading "*.",
\* the candidates equal to it up to case (a "*" elsewhere is literal); for
\* "*."+d, the candidates ending with "."+d up to case, hence neither d
\* itself nor a candidate merely ending with d.
C10_MatcherFailClosed ==
    /\ matches(WildExampleCom, AExampleCom)
    /\ ~matches(WildExampleCom, ExampleCom)
    /\ ~matches(WildExampleCom, EvilExampleCom)
    /\ matches(ExampleCom, ExampleCom)
    /\ matches(ExampleCom, ExampleComUpper)
    /\ matches(InnerStar, InnerStar)
    /\ ~matches(InnerStar, ABCom)
    /\ (HostChecked /\ last.host.some /\ ac.allow_hosts.kind = "Only") =>
           /\ \A i \in 1..Len(ac.allow_hosts.list) :
                  matches(ac.allow_hosts.list[i], last.host.val)
                      <=> MatcherAccepts(ac.allow_hosts.list[i], last.host.val)
           /\ last.denied <=>
                  \A i \in 1..Len(ac.allow_hosts.list) :
                      ~MatcherAccepts(ac.allow_hosts.list[i], last.host.val)

C10_Witness ==
    /\ HostChecked
    /\ ac.allow_hosts = AllowHosts_Only(<<WildExampleCom>>)
    /\ last.host = Some(EvilExampleCom)
    /\ last.denied

====
